---- MODULE Spec2Model ----
(***************************************************************************)
(* Model of the typed request/response dispatch facade of telegram-bot     *)
(* (lib/src/api.rs): Api::send, Api::send_timeout and the private          *)
(* Api::send_http_request, driven by an executor that polls the returned   *)
(* futures, the time that passes for the Timeout of each deadline-bound    *)
(* call, and a connector whose responses arrive from the network.          *)
(***************************************************************************)
EXTENDS Integers, FiniteSets, Sequences, TLC

\* ---------------------------------------------------------------- bounds
NumCalls == 2          \* futures the caller may create
MaxDur == 1            \* largest `duration` handed to send_timeout
MaxHolders == 2        \* Api handles and update streams alive at once

Calls == 1..NumCalls
Durations == 0..MaxDur
NoTime == -1

\* ------------------------------------------------------- values exchanged
\* What Connector::request can yield: a wire response or a transport error.
Bodies == {"body_ok", "body_api_error", "body_garbage"}
ConnResults == Bodies \cup {"transport_error"}

\* Tokens an Api can be built with, and the connector Api::new installs.
Tokens == {"tokenA", "tokenB"}
DefaultConnector == "default_connector"

Pending == [tag |-> "Pending", val |-> "-"]
Ok(v) == [tag |-> "Ok", val |-> v]
Err(e) == [tag |-> "Err", val |-> e]

VARIABLES
    st,         \* per call: where the future returned by send/send_timeout is
    kind,       \* per call: "send" or "send_timeout"
    ser,        \* per call: the Result of request.serialize(), captured by the async block
    dur,        \* per call: the `duration` argument of send_timeout
    timer,      \* per call: time elapsed on the delay of the Timeout
    exch,       \* per call: life of the future returned by Connector::request
    wire,       \* per call: whether the network has delivered the exchange's answer
    got,        \* per call: what the connector future yielded to send_http_request
    outcome,    \* per call: the value the future resolved to
    connCalls,  \* per call: number of Connector::request invocations
    deserCalls, \* per call: number of Resp::deserialize invocations
    \* Stopwatches of the calls that carry a deadline (NoTime when not
    \* running yet; an untimed call never looks at the clock). Each stops
    \* where it can no longer matter:
    sinceCall,  \* time since send_timeout was called, until the first poll
    sincePoll,  \* time from the first poll that passed `request?` to resolution
    serCalls,   \* per call: number of Request::serialize invocations
    sentToken,  \* per call: the token handed to Connector::request
    sentTo,     \* per call: the connector Connector::request was invoked on
    \* The shared state behind every Api handle, Arc<ApiInner>:
    token,      \* ApiInner.token
    connector,  \* ApiInner.connector
    strong,     \* strong count of the Arc
    freed,      \* the Arc has dropped ApiInner
    handles,    \* Api handles the callers hold
    streams     \* UpdatesStream values alive

callVars == <<st, kind, ser, dur, timer, exch, wire, got, outcome,
              connCalls, deserCalls, sinceCall, sincePoll, serCalls,
              sentToken, sentTo>>
apiVars == <<token, connector, strong, freed, handles, streams>>
vars == <<callVars, apiVars>>

\* ------------------------------------------------------------ pure steps

\* Resp::deserialize: the typed value, the server-reported API error of a
\* non-success envelope, or a parse failure.
Deserialize(body) ==
    CASE body = "body_ok" -> Ok("V")
      [] body = "body_api_error" -> Err("Api")
      [] OTHER -> Err("Deserialize")

\* Variant: the serialize result is not inspected before dispatching.
Serialized_ignored(c) == TRUE

\* `request?` inside the async block: TRUE when the captured serialize
\* result is Ok and the block goes on to send_http_request.
Serialized(c) == ser[c] = "ok"

\* Variant: a call started while another exchange exists joins it.
RequestsIssued_coalesced(c) ==
    IF \E b \in Calls : exch[b] # "none" THEN 0 ELSE 1

\* Variant: the request is issued again at every poll.
RequestsIssued_everyPoll(c) == 1

\* Connector::request invocations made by a poll of send_http_request: the
\* async fn calls it when first polled; later polls resume the same future.
RequestsIssued(c) == IF exch[c] = "none" THEN 1 ELSE 0

\* Variant: every failure of the exchange is reported as a transport error.
SendHttpRequest_flattenErrors(cp) ==
    CASE cp = "pending" -> [res |-> Pending, deser |-> 0]
      [] cp = "transport_error" -> [res |-> Err("Transport"), deser |-> 0]
      [] OTHER -> [res |-> IF Deserialize(cp).tag = "Err" THEN Err("Transport")
                           ELSE Deserialize(cp),
                   deser |-> 1]

\* Variant: the connector's result is deserialized even when it is an error.
SendHttpRequest_noShortCircuit(cp) ==
    CASE cp = "pending" -> [res |-> Pending, deser |-> 0]
      [] OTHER -> [res |-> Deserialize(cp), deser |-> 1]

\* One poll of send_http_request given what polling the connector future
\* gave ("pending" or a member of ConnResults): `?` returns a transport
\* error without deserializing, a response is deserialized once.
SendHttpRequest(cp) ==
    CASE cp = "pending" -> [res |-> Pending, deser |-> 0]
      [] cp = "transport_error" -> [res |-> Err("Transport"), deser |-> 0]
      [] OTHER -> [res |-> Deserialize(cp), deser |-> 1]

\* Variant: the timer may fire before the duration has run.
DelayCanFire_early(c, t) == TRUE

\* Whether the timer may already have marked as elapsed a delay on which
\* time t has run: never before the duration; how long after is up to the
\* timer.
DelayCanFire(c, t) == t >= dur[c]

\* Variant: the delay is never looked at.
TimeoutPoll_ignoresDelay(inner, fired) ==
    IF inner.tag # "Pending" THEN [tag |-> "Value", inner |-> inner]
    ELSE [tag |-> "NotReady", inner |-> inner]

\* Variant: expiry is reported through the wrapped future's error channel.
TimeoutPoll_expiryAsFailure(inner, fired) ==
    IF fired THEN [tag |-> "Value", inner |-> Err("Elapsed")]
    ELSE IF inner.tag # "Pending" THEN [tag |-> "Value", inner |-> inner]
    ELSE [tag |-> "NotReady", inner |-> inner]

\* Variant: the delay is looked at before the wrapped future.
TimeoutPoll_delayFirst(inner, fired) ==
    IF fired THEN [tag |-> "Elapsed", inner |-> inner]
    ELSE IF inner.tag # "Pending" THEN [tag |-> "Value", inner |-> inner]
    ELSE [tag |-> "NotReady", inner |-> inner]

\* One poll of Timeout<T>: the wrapped future first, then the delay.
TimeoutPoll(inner, fired) ==
    IF inner.tag # "Pending" THEN [tag |-> "Value", inner |-> inner]
    ELSE IF fired THEN [tag |-> "Elapsed", inner |-> inner]
    ELSE [tag |-> "NotReady", inner |-> inner]

\* Variant: expiry is surfaced as an error instead of None.
MapTimeout_elapsedIsError(t) ==
    CASE t.tag = "Elapsed" -> Err("Elapsed")
      [] t.tag = "Value" /\ t.inner.tag = "Ok" -> Ok("Some(" \o t.inner.val \o ")")
      [] t.tag = "Value" /\ t.inner.tag = "Err" -> Err(t.inner.val)
      [] OTHER -> Pending

\* Variant: the value of a completed exchange is lost.
MapTimeout_dropsValue(t) ==
    CASE t.tag = "Elapsed" -> Ok("None")
      [] t.tag = "Value" /\ t.inner.tag = "Ok" -> Ok("None")
      [] t.tag = "Value" /\ t.inner.tag = "Err" -> Err(t.inner.val)
      [] OTHER -> Pending

\* Variant: a failure of the wrapped future is swallowed into None.
MapTimeout_swallowErrors(t) ==
    CASE t.tag = "Elapsed" -> Ok("None")
      [] t.tag = "Value" /\ t.inner.tag = "Ok" -> Ok("Some(" \o t.inner.val \o ")")
      [] t.tag = "Value" /\ t.inner.tag = "Err" -> Ok("None")
      [] OTHER -> Pending

\* The match of send_timeout on the awaited Timeout.
MapTimeout(t) ==
    CASE t.tag = "Elapsed" -> Ok("None")
      [] t.tag = "Value" /\ t.inner.tag = "Ok" -> Ok("Some(" \o t.inner.val \o ")")
      [] t.tag = "Value" /\ t.inner.tag = "Err" -> Err(t.inner.val)
      [] OTHER -> Pending

\* Variant: the Timeout is built when send_timeout is called.
NewTimeout_fromCall(c) == sinceCall[c]

\* Time already run on the delay of Timeout::new(future, duration) when the
\* poll that reaches it builds it: the constructor runs inside the async
\* block, so the delay starts from that poll.
NewTimeout(c) == 0

\* Variant: the connector future outlives the Timeout that expired.
ExchangeAfterPoll_leak(cp, r) ==
    IF cp # "pending" THEN "returned" ELSE "inflight"

\* The connector future after a poll in which it gave cp and the whole
\* future gave r: consumed once it yields, dropped with the Timeout when
\* the call resolves without it, otherwise still in flight.
ExchangeAfterPoll(cp, r) ==
    IF cp # "pending" THEN "returned"
    ELSE IF r.tag = "Pending" THEN "inflight"
    ELSE "cancelled"

\* Variant: a failed call is sent back to its start.
StateOf_restartOnError(r) ==
    CASE r.tag = "Pending" -> "AwaitingTransport"
      [] r.tag = "Err" -> "Created"
      [] r = Ok("None") -> "Expired"
      [] OTHER -> "Done"

\* State of a future after a poll that produced `r`.
StateOf(r) ==
    CASE r.tag = "Pending" -> "AwaitingTransport"
      [] r.tag = "Err" -> "Failed"
      [] r = Ok("None") -> "Expired"
      [] OTHER -> "Done"

\* The call was made through send_timeout and carries a deadline.
Timed(c) == kind[c] = "send_timeout"

\* Variant: a call is resumed only once every call issued before it is over.
Awaiting_inTurn(c) ==
    st[c] = "AwaitingTransport" /\ \A b \in Calls : b < c => st[b] \notin {"Created", "AwaitingTransport"}

\* Variant: the exchange is detached and keeps being driven after a drop.
Awaiting_detached(c) == st[c] \in {"AwaitingTransport", "Dropped"} /\ connCalls[c] > 0

\* The future is suspended at the connector's `.await` and can be resumed.
Awaiting(c) == st[c] = "AwaitingTransport"

\* The returned future is still pending / has produced its output.
Unresolved(c) == st[c] \in {"Created", "AwaitingTransport"}
Resolved(c) == st[c] \in {"Done", "Failed", "Expired"}

\* Variant: serialization is deferred into the async block.
SerializeRunsIn_lazy(step) == IF step = "poll" THEN 1 ELSE 0

\* Request::serialize invocations made by a call of send/send_timeout
\* ("call") and by the first poll of the future it returned ("poll"):
\* `let request = request.serialize();` stands before the `async move`.
SerializeRunsIn(step) == IF step = "call" THEN 1 ELSE 0

\* Arc::clone, behind the derived Clone of Api: one more strong reference
\* to the same ApiInner.
Acquire(n) == n + 1

\* Variant: the request is issued with an empty token.
RequestArgs_noToken == [token |-> "", connector |-> connector]

\* `self.0.connector.request(&self.0.token, request)`: the connector the
\* call goes to and the token it is given, both read through the duplicate
\* of the handle that the future owns.
RequestArgs == [token |-> token, connector |-> connector]

\* ----------------------------------------------------------------- Init
\* Api::new(t): the token as given, the default connector, one handle.
New(t) ==
    /\ token = t
    /\ connector = DefaultConnector
    /\ strong = 1
    /\ freed = FALSE
    /\ handles = 1
    /\ streams = 0
    /\ serCalls = [c \in Calls |-> 0]
    /\ sentToken = [c \in Calls |-> "-"]
    /\ sentTo = [c \in Calls |-> "-"]
    /\ st = [c \in Calls |-> "Unused"]
    /\ kind = [c \in Calls |-> "-"]
    /\ ser = [c \in Calls |-> "-"]
    /\ dur = [c \in Calls |-> 0]
    /\ timer = [c \in Calls |-> NoTime]
    /\ exch = [c \in Calls |-> "none"]
    /\ wire = [c \in Calls |-> "none"]
    /\ got = [c \in Calls |-> "none"]
    /\ outcome = [c \in Calls |-> Pending]
    /\ connCalls = [c \in Calls |-> 0]
    /\ deserCalls = [c \in Calls |-> 0]
    /\ sinceCall = [c \in Calls |-> NoTime]
    /\ sincePoll = [c \in Calls |-> NoTime]

Init == New("tokenA")

\* -------------------------------------------------------------- actions

\* Dropping one Arc<ApiInner>: the count goes down and the last drop
\* destroys the ApiInner.
Release ==
    /\ strong' = strong - 1
    /\ freed' = (strong = 1)

\* What no operation of the facade writes: the fields of ApiInner, and
\* the handles and streams, which only their owners create and drop.
ApiKept == UNCHANGED <<token, connector, handles, streams>>

\* Futures are numbered in the order the caller creates them.
NextCall(c) == st[c] = "Unused" /\ \A b \in Calls : b < c => st[b] # "Unused"

\* Variant: the future borrows the handle it was called on.
Send_borrowed(c, s) ==
    /\ NextCall(c)
    /\ handles > 0
    /\ st' = [st EXCEPT ![c] = "Created"]
    /\ kind' = [kind EXCEPT ![c] = "send"]
    /\ ser' = [ser EXCEPT ![c] = s]
    /\ serCalls' = [serCalls EXCEPT ![c] = @ + SerializeRunsIn("call")]
    /\ ApiKept
    /\ UNCHANGED <<dur, timer, exch, wire, got, outcome, connCalls,
                   deserCalls, sinceCall, sincePoll, sentToken, sentTo,
                   strong, freed>>

\* Api::send on a live handle: clone the handle, serialize now, return the
\* future unpolled.
Send(c, s) ==
    /\ NextCall(c)
    /\ handles > 0
    /\ st' = [st EXCEPT ![c] = "Created"]
    /\ kind' = [kind EXCEPT ![c] = "send"]
    /\ ser' = [ser EXCEPT ![c] = s]
    /\ serCalls' = [serCalls EXCEPT ![c] = @ + SerializeRunsIn("call")]
    /\ strong' = Acquire(strong)
    /\ ApiKept
    /\ UNCHANGED <<dur, timer, exch, wire, got, outcome, connCalls,
                   deserCalls, sinceCall, sincePoll, sentToken, sentTo, freed>>

\* Api::send_timeout: as send, and remember the duration.
SendTimeout(c, s, d) ==
    /\ NextCall(c)
    /\ handles > 0
    /\ st' = [st EXCEPT ![c] = "Created"]
    /\ kind' = [kind EXCEPT ![c] = "send_timeout"]
    /\ ser' = [ser EXCEPT ![c] = s]
    /\ serCalls' = [serCalls EXCEPT ![c] = @ + SerializeRunsIn("call")]
    /\ dur' = [dur EXCEPT ![c] = d]
    /\ sinceCall' = [sinceCall EXCEPT ![c] = 0]
    /\ strong' = Acquire(strong)
    /\ ApiKept
    /\ UNCHANGED <<timer, exch, wire, got, outcome, connCalls,
                   deserCalls, sincePoll, sentToken, sentTo, freed>>

\* Result of a poll of the whole future of call c, given the connector
\* poll result cp and whether the Timeout's delay has fired.
PollResult(c, cp, fired) ==
    IF kind[c] = "send" THEN SendHttpRequest(cp).res
    ELSE MapTimeout(TimeoutPoll(SendHttpRequest(cp).res, fired))

\* The common tail of a poll that reaches send_http_request.
PollInner(c, cp, fired) ==
    LET r == PollResult(c, cp, fired) IN
    /\ st' = [st EXCEPT ![c] = StateOf(r)]
    /\ outcome' = [outcome EXCEPT ![c] = r]
    /\ got' = [got EXCEPT ![c] = IF cp = "pending" THEN "none" ELSE cp]
    /\ connCalls' = [connCalls EXCEPT ![c] = @ + RequestsIssued(c)]
    /\ deserCalls' = [deserCalls EXCEPT ![c] = @ + SendHttpRequest(cp).deser]
    /\ exch' = [exch EXCEPT ![c] = ExchangeAfterPoll(cp, r)]
    /\ sentToken' = [sentToken EXCEPT ![c] =
          IF RequestsIssued(c) > 0 THEN RequestArgs.token ELSE @]
    /\ sentTo' = [sentTo EXCEPT ![c] =
          IF RequestsIssued(c) > 0 THEN RequestArgs.connector ELSE @]
    /\ IF r.tag = "Pending" THEN UNCHANGED <<strong, freed>> ELSE Release
    /\ ApiKept

\* First poll of a future whose request failed to serialize: `request?`
\* leaves the async block before send_http_request or Timeout::new is built.
PollSerializeError(c) ==
    /\ st[c] = "Created"
    /\ ~Serialized(c)
    /\ st' = [st EXCEPT ![c] = "Failed"]
    /\ outcome' = [outcome EXCEPT ![c] = Err("Serialize")]
    /\ sinceCall' = [sinceCall EXCEPT ![c] = NoTime]
    /\ serCalls' = [serCalls EXCEPT ![c] = @ + SerializeRunsIn("poll")]
    /\ Release
    /\ ApiKept
    /\ UNCHANGED <<kind, ser, dur, timer, exch, wire, got, connCalls,
                   deserCalls, sincePoll, sentToken, sentTo>>

\* First poll of a future whose request serialized: build the Timeout
\* (send_timeout only), call Connector::request and poll its future, which
\* is ready at once (imm in ConnResults) or pending; then poll the delay.
PollFirst(c, imm, fired) ==
    /\ st[c] = "Created"
    /\ Serialized(c)
    /\ LET t == IF Timed(c) THEN NewTimeout(c) ELSE NoTime IN
       /\ fired => Timed(c) /\ DelayCanFire(c, t)
       /\ timer' = [timer EXCEPT ![c] = t]
    /\ PollInner(c, imm, fired)
    /\ sinceCall' = [sinceCall EXCEPT ![c] = NoTime]
    /\ sincePoll' = [sincePoll EXCEPT ![c] = IF Timed(c) THEN 0 ELSE NoTime]
    /\ wire' = [wire EXCEPT ![c] = IF imm = "pending" THEN "none" ELSE "arrived"]
    /\ serCalls' = [serCalls EXCEPT ![c] = @ + SerializeRunsIn("poll")]
    /\ UNCHANGED <<kind, ser, dur>>

\* A later poll: the connector future is pending until the network has
\* delivered and then yields what arrived (cp), and the delay is ready if
\* the timer has fired it.
PollAgain(c, cp, fired) ==
    /\ Awaiting(c)
    /\ (cp = "pending") <=> (wire[c] = "none")
    /\ fired => Timed(c) /\ DelayCanFire(c, timer[c])
    /\ PollInner(c, cp, fired)
    /\ UNCHANGED <<kind, ser, dur, timer, wire, sinceCall, sincePoll, serCalls>>

\* The network delivers the connector's answer (a response or a transport
\* error) to an exchange in flight; the connector future yields it at its
\* next poll.
ConnectorRespond(c) ==
    /\ exch[c] = "inflight"
    /\ wire[c] = "none"
    /\ wire' = [wire EXCEPT ![c] = "arrived"]
    /\ UNCHANGED <<st, kind, ser, dur, timer, exch, got, outcome,
                   connCalls, deserCalls, sinceCall, sincePoll, serCalls,
                   sentToken, sentTo>>
    /\ UNCHANGED apiVars

\* The caller drops a future that has not resolved: the async block and
\* everything it owns (the duration, the Timeout with its delay, the
\* connector future and what it had received) are destroyed.
Drop(c) ==
    /\ Unresolved(c)
    /\ st' = [st EXCEPT ![c] = "Dropped"]
    /\ exch' = [exch EXCEPT ![c] = IF @ = "inflight" THEN "cancelled" ELSE @]
    /\ dur' = [dur EXCEPT ![c] = 0]
    /\ timer' = [timer EXCEPT ![c] = NoTime]
    /\ wire' = [wire EXCEPT ![c] = "none"]
    /\ sinceCall' = [sinceCall EXCEPT ![c] = NoTime]
    /\ sincePoll' = [sincePoll EXCEPT ![c] = NoTime]
    /\ Release
    /\ ApiKept
    /\ UNCHANGED <<kind, ser, got, outcome, connCalls, deserCalls, serCalls,
                   sentToken, sentTo>>

\* A stopwatch reading t one unit of time later, read no further than cap.
Advance(t, cap) == IF t = NoTime \/ t >= cap THEN t ELSE t + 1

\* One unit of time passes for every call at once: a created, unpolled
\* send_timeout future ages, and the delay of every armed Timeout runs.
\* Readings stop one past the duration, where they no longer differ.
Tick ==
    /\ sinceCall' = [c \in Calls |->
          IF st[c] = "Created" THEN Advance(sinceCall[c], dur[c]) ELSE sinceCall[c]]
    /\ timer' = [c \in Calls |->
          IF Awaiting(c) THEN Advance(timer[c], dur[c] + 1) ELSE timer[c]]
    /\ sincePoll' = [c \in Calls |->
          IF Awaiting(c) THEN Advance(sincePoll[c], dur[c] + 1) ELSE sincePoll[c]]
    /\ <<sinceCall', timer', sincePoll'>> # <<sinceCall, timer, sincePoll>>
    /\ UNCHANGED <<st, kind, ser, dur, exch, wire, got, outcome, connCalls,
                   deserCalls, serCalls, sentToken, sentTo>>
    /\ UNCHANGED apiVars

\* Api::clone on a live handle: one more handle on the same ApiInner.
Clone ==
    /\ handles > 0
    /\ handles + streams < MaxHolders
    /\ handles' = handles + 1
    /\ strong' = Acquire(strong)
    /\ UNCHANGED <<callVars, token, connector, freed, streams>>

\* The caller drops one of its handles.
DropHandle ==
    /\ handles > 0
    /\ handles' = handles - 1
    /\ Release
    /\ UNCHANGED <<callVars, token, connector, streams>>

\* Api::stream on a live handle: UpdatesStream::new(&self) keeps a
\* duplicate of the handle for as long as the stream lives.
Stream ==
    /\ handles > 0
    /\ handles + streams < MaxHolders
    /\ streams' = streams + 1
    /\ strong' = Acquire(strong)
    /\ UNCHANGED <<callVars, token, connector, freed, handles>>

\* The caller drops a stream, and with it the duplicate it kept.
DropStream ==
    /\ streams > 0
    /\ streams' = streams - 1
    /\ Release
    /\ UNCHANGED <<callVars, token, connector, handles>>

Next ==
    \/ \E c \in Calls, s \in {"ok", "err"} : Send(c, s)
    \/ \E c \in Calls, s \in {"ok", "err"}, d \in Durations : SendTimeout(c, s, d)
    \/ \E c \in Calls : PollSerializeError(c)
    \/ \E c \in Calls, imm \in ConnResults \cup {"pending"}, fired \in BOOLEAN :
           PollFirst(c, imm, fired)
    \/ \E c \in Calls, cp \in ConnResults \cup {"pending"}, fired \in BOOLEAN :
           PollAgain(c, cp, fired)
    \/ \E c \in Calls : ConnectorRespond(c)
    \/ \E c \in Calls : Drop(c)
    \/ Tick

\* The calls made through one handle that the caller keeps.
Spec == Init /\ [][Next]_vars

\* A caller that keeps polling the futures it holds, and a timer that keeps
\* time and fires every delay some time after its duration has run.
PollOn(c) ==
    \/ PollSerializeError(c)
    \/ \E imm \in ConnResults \cup {"pending"} : PollFirst(c, imm, FALSE)

PollFired(c) == \E cp \in ConnResults \cup {"pending"} : PollAgain(c, cp, TRUE)

Fairness ==
    /\ WF_vars(Tick)
    /\ \A c \in Calls : WF_vars(PollOn(c)) /\ WF_vars(PollFired(c))

\* The calls against a connector that never answers: every exchange it is
\* handed stays pending.
NextQuiet ==
    \/ \E c \in Calls, s \in {"ok", "err"} : Send(c, s)
    \/ \E c \in Calls, s \in {"ok", "err"}, d \in Durations : SendTimeout(c, s, d)
    \/ \E c \in Calls : PollSerializeError(c)
    \/ \E c \in Calls, fired \in BOOLEAN : PollFirst(c, "pending", fired)
    \/ \E c \in Calls, fired \in BOOLEAN : PollAgain(c, "pending", fired)
    \/ \E c \in Calls : Drop(c)
    \/ Tick

FairSpec == Init /\ [][NextQuiet]_vars /\ Fairness

\* Who owns the shared state: an Api built with any token, its handle being
\* duplicated, turned into streams and dropped while calls run. Ownership
\* does not depend on how long anything takes, so here time stands still
\* and a timeout is of zero duration, which can still expire.
InitApi == \E t \in Tokens : New(t)

NextApi ==
    \/ \E c \in Calls, s \in {"ok", "err"} : Send(c, s)
    \/ \E c \in Calls, s \in {"ok", "err"} : SendTimeout(c, s, 0)
    \/ \E c \in Calls : PollSerializeError(c)
    \/ \E c \in Calls, imm \in ConnResults \cup {"pending"}, fired \in BOOLEAN :
           PollFirst(c, imm, fired)
    \/ \E c \in Calls, cp \in ConnResults \cup {"pending"}, fired \in BOOLEAN :
           PollAgain(c, cp, fired)
    \/ \E c \in Calls : ConnectorRespond(c)
    \/ \E c \in Calls : Drop(c)
    \/ Clone
    \/ DropHandle
    \/ Stream
    \/ DropStream

SpecApi == InitApi /\ [][NextApi]_vars

TypeOK ==
    \A c \in Calls :
        /\ st[c] \in {"Unused", "Created", "AwaitingTransport", "Done",
                      "Failed", "Expired", "Dropped"}
        /\ connCalls[c] \in 0..1
        /\ deserCalls[c] \in 0..1
        /\ deserCalls[c] <= connCalls[c]
        /\ timer[c] = sincePoll[c]
        /\ sinceCall[c] \in {NoTime} \cup 0..dur[c]
        /\ sincePoll[c] \in {NoTime} \cup 0..(dur[c] + 1)
        /\ serCalls[c] \in 0..1
        /\ sentToken[c] \in Tokens \cup {"-"}
        /\ sentTo[c] \in {DefaultConnector, "-"}
        /\ token \in Tokens
        /\ connector = DefaultConnector
        /\ handles \in 0..MaxHolders
        /\ streams \in 0..MaxHolders
        /\ strong \in 0..(MaxHolders + NumCalls)
        /\ freed \in BOOLEAN

\* ================================================================ claims

\* C1: a call (send or send_timeout) whose serialize step failed never
\* invokes Connector::request, and once polled it has resolved to the
\* serialization error.
C1_SerializeFailureNeverCallsConnector ==
    \A c \in Calls : ser[c] = "err" =>
        /\ connCalls[c] = 0
        /\ deserCalls[c] = 0
        /\ exch[c] = "none"
        /\ st[c] \in {"Created", "Failed", "Dropped"}
        /\ st[c] = "Failed" => outcome[c] = Err("Serialize")

C1_Witness ==
    \E a, b \in Calls :
        /\ kind[a] = "send" /\ kind[b] = "send_timeout"
        /\ ser[a] = "err" /\ ser[b] = "err"
        /\ st[a] = "Failed" /\ st[b] = "Failed"

\* C2: when the connector future yields a transport error, deserialize is
\* never invoked for that call and the call has resolved to that error.
C2_TransportErrorSkipsDeserialize ==
    \A c \in Calls : got[c] = "transport_error" =>
        /\ deserCalls[c] = 0
        /\ st[c] = "Failed"
        /\ outcome[c] = Err("Transport")

C2_Witness ==
    \E a, b \in Calls :
        /\ kind[a] = "send" /\ kind[b] = "send_timeout"
        /\ got[a] = "transport_error" /\ got[b] = "transport_error"

\* C3 as stated: a send future awaited to completion has made exactly one
\* Connector::request call, whatever the outcome.
C3_Original ==
    \A c \in Calls : kind[c] = "send" /\ Resolved(c) => connCalls[c] = 1

\* C3 amended: a send future awaited to completion has made exactly one
\* Connector::request call when the request serialized (whatever the
\* outcome of the exchange), and none when serialization failed.
C3_OneConnectorCallIfSerialized ==
    \A c \in Calls : kind[c] = "send" /\ Resolved(c) =>
        connCalls[c] = IF ser[c] = "ok" THEN 1 ELSE 0

C3_Witness ==
    \E a, b \in Calls :
        /\ kind[a] = "send" /\ st[a] = "Done" /\ connCalls[a] = 1
        /\ kind[b] = "send" /\ st[b] = "Failed" /\ ser[b] = "ok" /\ connCalls[b] = 1

C5_TimeoutPropagatesFailures ==
    \A c \in Calls : Timed(c) =>
        /\ ser[c] = "err" /\ st[c] \notin {"Created", "Dropped"} =>
              st[c] = "Failed" /\ outcome[c] = Err("Serialize")
        /\ got[c] = "transport_error" =>
              st[c] = "Failed" /\ outcome[c] = Err("Transport")
        /\ got[c] = "body_api_error" =>
              st[c] = "Failed" /\ outcome[c] = Err("Api")
        /\ got[c] = "body_garbage" =>
              st[c] = "Failed" /\ outcome[c] = Err("Deserialize")

C5_Witness ==
    \E a, b \in Calls :
        /\ Timed(a) /\ dur[a] = 0 /\ ser[a] = "err" /\ st[a] = "Failed"
        /\ Timed(b) /\ got[b] = "body_api_error" /\ sincePoll[b] < dur[b]

\* C6: when the poll that resolves a send_timeout call finds a successful
\* response available at or after the instant the deadline expires, the
\* call resolves to Ok(Some(result)) or Ok(None), never to an error.
C6_RaceIsNeverAnError ==
    \A c \in Calls : Timed(c) /\ got[c] = "body_ok" /\ sincePoll[c] >= dur[c] =>
        /\ st[c] \in {"Done", "Expired"}
        /\ outcome[c] \in {Ok("Some(V)"), Ok("None")}

C6_Witness ==
    \E c \in Calls :
        /\ Timed(c) /\ dur[c] > 0 /\ got[c] = "body_ok"
        /\ sincePoll[c] = dur[c] /\ st[c] = "Done"

\* C7 as stated: with duration zero and a request that serialized, the
\* first poll starts the exchange (one Connector::request call) and the
\* call is resolved by that poll: to Ok(None) unless the exchange was
\* already complete.
C7_Original ==
    \A c \in Calls : Timed(c) /\ dur[c] = 0 /\ ser[c] = "ok" /\ sincePoll[c] # NoTime =>
        /\ connCalls[c] = 1
        /\ Resolved(c)
        /\ got[c] = "none" => outcome[c] = Ok("None")

\* C7 amended: with duration zero and a request that serialized, the first
\* poll starts the exchange (exactly one Connector::request call); the
\* call resolves to Ok(None) only at a poll that finds the exchange
\* incomplete once the timer has fired, which may be the first poll or a
\* later one, and an exchange found complete by a poll yields its result.
C7_ZeroDurationStartsExchange ==
    \A c \in Calls : Timed(c) /\ dur[c] = 0 /\ ser[c] = "ok" /\ sincePoll[c] # NoTime =>
        /\ connCalls[c] = 1
        /\ st[c] = "Expired" => got[c] = "none" /\ deserCalls[c] = 0
        /\ st[c] = "AwaitingTransport" => got[c] = "none" /\ exch[c] = "inflight"
        /\ got[c] = "body_ok" => outcome[c] = Ok("Some(V)")
        /\ got[c] \in ConnResults \ {"body_ok"} => outcome[c].tag = "Err"

C7_Witness ==
    \E a, b \in Calls :
        /\ Timed(a) /\ dur[a] = 0 /\ st[a] = "Expired"
        /\ sincePoll[a] = 0 /\ connCalls[a] = 1
        /\ Timed(b) /\ dur[b] = 0 /\ st[b] = "Done" /\ connCalls[b] = 1

\* C8: the deadline of send_timeout runs from the first poll of the
\* future: a call resolves to Ok(None) no earlier than `duration` after its
\* first poll, however long it waited between creation and first poll.
C8_DeadlineFromFirstPoll ==
    \A c \in Calls : st[c] = "Expired" =>
        /\ sincePoll[c] # NoTime
        /\ sincePoll[c] >= dur[c]

C8_Witness ==
    \E c \in Calls : st[c] = "Expired" /\ dur[c] > 0 /\ sincePoll[c] >= dur[c]

\* C9: once a send_timeout call has expired its connector exchange is
\* cancelled: the call stays expired, no deserialize step and no further
\* connector call is made for it, and nothing is delivered to it.
C9_ExpiredCallIsCancelled ==
    /\ [](\A c \in Calls : st[c] = "Expired" =>
            exch[c] = "cancelled" /\ deserCalls[c] = 0)
    /\ [][\A c \in Calls : st[c] = "Expired" =>
            /\ st'[c] = "Expired"
            /\ connCalls'[c] = connCalls[c]
            /\ deserCalls'[c] = deserCalls[c]
            /\ wire'[c] = wire[c]
            /\ outcome'[c] = outcome[c]]_vars

C9_Witness ==
    \E c \in Calls : st[c] = "Expired" /\ connCalls[c] = 1 /\ exch[c] = "cancelled"

\* C10: after an unresolved future of send or send_timeout is dropped, at
\* whatever point, no deserialize call is made for it, at most one further
\* connector call is made (the code makes none), and the call never
\* reaches Done or Failed.
C10_DroppedCallDoesNothingMore ==
    /\ [](\A c \in Calls : st[c] = "Dropped" =>
            outcome[c] = Pending /\ exch[c] \in {"none", "cancelled"})
    /\ [][\A c \in Calls : st[c] = "Dropped" =>
            /\ st'[c] = "Dropped"
            /\ connCalls'[c] <= connCalls[c] + 1
            /\ deserCalls'[c] = deserCalls[c]]_vars

C10_Witness ==
    \E a, b \in Calls :
        /\ st[a] = "Dropped" /\ connCalls[a] = 0
        /\ st[b] = "Dropped" /\ connCalls[b] = 1 /\ kind[b] = "send_timeout"

\* C11: the token and the connector stay as Api::new set them: no
\* operation (send, send_timeout, clone, stream, a drop) changes them, and
\* every Connector::request, through whichever duplicate of the handle it
\* is issued, goes to that connector and is given that token.
C11_TokenAndConnectorFixed ==
    /\ [](\A c \in Calls : connCalls[c] > 0 =>
            sentToken[c] = token /\ sentTo[c] = connector)
    /\ [](connector = DefaultConnector)
    /\ [][token' = token /\ connector' = connector]_vars

C11_Witness ==
    \E a, b \in Calls :
        /\ a # b
        /\ token = "tokenB"
        /\ connCalls[a] = 1 /\ sentToken[a] = "tokenB"
        /\ connCalls[b] = 1 /\ sentToken[b] = "tokenB"
        /\ handles = 0 /\ streams = 1

\* C12: serialize runs exactly once per call, inside send/send_timeout and
\* before the future is returned; the returned future is pending and has
\* made no connector call until it is polled, also when serialization
\* failed; that failure is what the future resolves to when polled.
C12_SerializeOnceAtCallTime ==
    /\ [](\A c \in Calls :
            /\ serCalls[c] = IF st[c] = "Unused" THEN 0 ELSE 1
            /\ st[c] = "Created" =>
                  /\ ser[c] \in {"ok", "err"}
                  /\ outcome[c] = Pending
                  /\ connCalls[c] = 0
                  /\ exch[c] = "none"
            /\ ser[c] = "err" /\ Resolved(c) => outcome[c] = Err("Serialize"))
    /\ [][\A c \in Calls :
            /\ serCalls'[c] # serCalls[c] => st[c] = "Unused" /\ st'[c] = "Created"
            /\ connCalls'[c] # connCalls[c] => st[c] = "Created" /\ st'[c] # "Created"]_vars

C12_Witness ==
    \E a, b \in Calls :
        /\ ser[a] = "err" /\ st[a] = "Created" /\ serCalls[a] = 1
        /\ ser[b] = "err" /\ st[b] = "Failed" /\ outcome[b] = Err("Serialize")
        /\ serCalls[b] = 1

\* C13: a send call that fails at a step (serialize, the connector, the
\* API envelope, parsing) resolves to the error of that very step, its kind
\* kept apart from the others, and nothing is retried: once failed, the
\* call makes no further connector or deserialize call and stays failed.
C13_SendPropagatesFirstFailure ==
    /\ [](\A c \in Calls : kind[c] = "send" =>
            /\ ser[c] = "err" /\ Resolved(c) => outcome[c] = Err("Serialize")
            /\ got[c] = "transport_error" => outcome[c] = Err("Transport")
            /\ got[c] = "body_api_error" => outcome[c] = Err("Api")
            /\ got[c] = "body_garbage" => outcome[c] = Err("Deserialize")
            /\ outcome[c].tag = "Err" => st[c] = "Failed" /\ connCalls[c] <= 1)
    /\ [][\A c \in Calls : kind[c] = "send" /\ st[c] = "Failed" =>
            /\ st'[c] = "Failed"
            /\ outcome'[c] = outcome[c]
            /\ connCalls'[c] = connCalls[c]
            /\ deserCalls'[c] = deserCalls[c]]_vars

C13_Witness ==
    \E a, b \in Calls :
        /\ kind[a] = "send" /\ got[a] = "body_api_error" /\ outcome[a] = Err("Api")
        /\ kind[b] = "send" /\ got[b] = "transport_error" /\ outcome[b] = Err("Transport")

\* C14: when the request serialized and the connector yields the canned
\* response that deserializes to V, send resolves to Ok(V) and
\* send_timeout to Ok(Some(V)), in particular whenever the exchange
\* completed within the duration; no call is Done otherwise.
C14_RoundTrip ==
    \A c \in Calls :
        /\ got[c] = "body_ok" =>
              /\ st[c] = "Done"
              /\ connCalls[c] = 1 /\ deserCalls[c] = 1
              /\ outcome[c] = IF Timed(c) THEN Ok("Some(V)") ELSE Ok("V")
        /\ st[c] = "Done" => ser[c] = "ok" /\ got[c] = "body_ok"

C14_Witness ==
    \E a, b \in Calls :
        /\ kind[a] = "send" /\ outcome[a] = Ok("V")
        /\ Timed(b) /\ dur[b] > 0 /\ sincePoll[b] < dur[b]
        /\ outcome[b] = Ok("Some(V)")

\* A step that moves call c forward on its own: a poll that takes it out of
\* its state, or the arrival of its answer.
AdvanceAlone(c) ==
    /\ \/ PollSerializeError(c)
       \/ \E imm \in ConnResults \cup {"pending"} : PollFirst(c, imm, FALSE)
       \/ \E cp \in ConnResults : PollAgain(c, cp, FALSE)
       \/ ConnectorRespond(c)
    /\ \A a \in Calls \ {c} : st'[a] = st[a] /\ wire'[a] = wire[a]

\* C15: concurrent calls are not ordered: whenever several calls are
\* unresolved, each of them, whether issued first or last, can take the
\* next step towards completion while the others stay where they are; so a
\* later call can complete before an earlier one, and the reverse.
C15_NoOrderBetweenCalls ==
    \A c \in Calls :
        Unresolved(c) /\ (\E a \in Calls \ {c} : Unresolved(a)) =>
            ENABLED AdvanceAlone(c)

C15_Witness ==
    \E a, b \in Calls :
        /\ a < b
        /\ st[a] = "AwaitingTransport" /\ wire[a] = "arrived"
        /\ st[b] = "Done"

\* Everything that holds a duplicate of the handle: the callers' handles,
\* the streams, and the futures that have neither resolved nor been dropped.
Holders == handles + streams + Cardinality({c \in Calls : Unresolved(c)})

\* C16: the Arc counts exactly the handles, the streams and the unresolved
\* futures, each future from the call that creates it; the shared state is
\* destroyed when, and only when, the last of them is gone, so never while
\* a call is in flight, even after the caller dropped every handle.
C16_SharedStateOutlivesHolders ==
    /\ [](strong = Holders)
    /\ [](freed <=> Holders = 0)
    /\ [][\A c \in Calls : st[c] = "Unused" /\ st'[c] = "Created" =>
            strong' = strong + 1 /\ ~freed']_vars

C16_Witness ==
    \E a, b \in Calls :
        /\ Awaiting(a) /\ kind[a] = "send"
        /\ st[b] = "Created" /\ kind[b] = "send_timeout"
        /\ handles = 0 /\ streams = 0
        /\ strong = 2 /\ ~freed

\* C17: a call only moves forward: from created (its serialize result
\* captured) to awaiting the transport, to deserializing, to Done, a poll
\* possibly taking several of these steps at once. It awaits the transport
\* only if the request serialized, deserializes only what the transport
\* delivered as a response, is Done only if parsing succeeded, and never
\* leaves Done, Failed or Expired, so it ends in at most one of them.
C17_ForwardOnly ==
    [][\A c \in Calls :
        /\ st'[c] # st[c] =>
              <<st[c], st'[c]>> \in
                  ({"Unused"} \X {"Created"})
                  \cup ({"Created"} \X {"AwaitingTransport", "Done", "Failed",
                                        "Expired", "Dropped"})
                  \cup ({"AwaitingTransport"} \X {"Done", "Failed", "Expired",
                                                  "Dropped"})
        /\ st'[c] = "AwaitingTransport" => ser[c] = "ok" /\ connCalls'[c] = 1
        /\ deserCalls'[c] # deserCalls[c] =>
              /\ got'[c] \in Bodies
              /\ connCalls'[c] = 1
              /\ deserCalls'[c] = 1
        /\ st'[c] = "Done" =>
              /\ deserCalls'[c] = 1
              /\ Deserialize(got'[c]).tag = "Ok"
        /\ Resolved(c) => st'[c] = st[c] /\ outcome'[c] = outcome[c]]_vars

C17_Witness ==
    \E a, b \in Calls :
        /\ st[a] = "Done" /\ connCalls[a] = 1 /\ deserCalls[a] = 1
        /\ st[b] = "Failed" /\ got[b] = "body_garbage" /\ deserCalls[b] = 1

\* Some poll of call c, taken now, would leave it Expired.
CanExpire(c) ==
    ENABLED /\ \/ PollSerializeError(c)
               \/ \E imm \in ConnResults \cup {"pending"}, fired \in BOOLEAN :
                      PollFirst(c, imm, fired)
               \/ \E cp \in ConnResults \cup {"pending"}, fired \in BOOLEAN :
                      PollAgain(c, cp, fired)
            /\ st'[c] = "Expired"

\* C18 as stated: a send_timeout call can expire from each of its stages
\* once the duration has run: not yet polled with its request serialized,
\* awaiting the transport, and with the answer delivered and about to be
\* deserialized; a send call can expire from none.
C18_Original ==
    \A c \in Calls :
        /\ Timed(c) /\ st[c] = "Created" /\ ser[c] = "ok" /\ dur[c] = 0 => CanExpire(c)
        /\ Timed(c) /\ Awaiting(c) /\ timer[c] >= dur[c] => CanExpire(c)
        /\ kind[c] = "send" => st[c] # "Expired" /\ ~CanExpire(c)

\* C18 amended: a send_timeout call can expire only while its exchange is
\* incomplete and the duration has run: at its first poll when the request
\* serialized and the duration is zero, or while awaiting the transport
\* with no answer delivered. It cannot expire once the answer has been
\* delivered (the poll that takes it deserializes it and resolves to the
\* result), nor when serialization failed; a send call never expires.
C18_ExpiresOnlyWhileIncomplete ==
    \A c \in Calls :
        /\ Timed(c) =>
              (CanExpire(c) <=>
                  \/ st[c] = "Created" /\ ser[c] = "ok" /\ dur[c] = 0
                  \/ Awaiting(c) /\ wire[c] = "none" /\ timer[c] >= dur[c])
        /\ st[c] = "Expired" =>
              /\ Timed(c) /\ ser[c] = "ok"
              /\ connCalls[c] = 1 /\ got[c] = "none" /\ deserCalls[c] = 0
        /\ kind[c] = "send" => st[c] # "Expired" /\ ~CanExpire(c)

C18_Witness ==
    \E a, b \in Calls :
        /\ Timed(a) /\ Awaiting(a) /\ wire[a] = "arrived" /\ timer[a] > dur[a]
        /\ ~CanExpire(a)
        /\ Timed(b) /\ Awaiting(b) /\ wire[b] = "none" /\ dur[b] > 0
        /\ CanExpire(b)

\* C19: against a connector that never answers, a send_timeout future
\* that is polled on and not dropped eventually resolves, to Ok(None) when
\* its request serialized; a send future whose request serialized never
\* resolves: it stays pending for as long as it is held.
C19_TimeoutResolvesSendWaits ==
    /\ \A c \in Calls :
          (Timed(c) /\ Unresolved(c)) ~> (Resolved(c) \/ st[c] = "Dropped")
    /\ [](\A c \in Calls : Timed(c) /\ Resolved(c) /\ ser[c] = "ok" =>
            outcome[c] = Ok("None"))
    /\ [](\A c \in Calls : kind[c] = "send" /\ ser[c] = "ok" => ~Resolved(c))

C19_Witness ==
    \E a, b \in Calls :
        /\ Timed(a) /\ dur[a] > 0 /\ st[a] = "Expired" /\ wire[a] = "none"
        /\ kind[b] = "send" /\ Awaiting(b) /\ wire[b] = "none"

\* C20: calls do not interfere. Whatever the other calls do (fail, expire,
\* get dropped, complete), the outcome of a resolved call and its numbers
\* of connector and deserialize invocations are one fixed function of its
\* own variant, serialize result and what its own exchange yielded before
\* it resolved (nothing, when its deadline came first); and a step of one
\* call touches nothing of another call, time alone passing for all.
C20_CallsDoNotInterfere ==
    /\ [](\A c \in Calls : Resolved(c) =>
            LET d == Deserialize(got[c])
                expected ==
                    CASE ser[c] = "err" -> Err("Serialize")
                      [] got[c] = "none" -> Ok("None")
                      [] got[c] = "transport_error" -> Err("Transport")
                      [] d.tag = "Err" -> d
                      [] OTHER -> IF Timed(c) THEN Ok("Some(" \o d.val \o ")") ELSE d
            IN  /\ outcome[c] = expected
                /\ connCalls[c] = IF ser[c] = "ok" THEN 1 ELSE 0
                /\ deserCalls[c] = IF got[c] \in Bodies THEN 1 ELSE 0)
    /\ [][\E c \in Calls : \A b \in Calls \ {c} :
            /\ <<st'[b], kind'[b], ser'[b], dur'[b]>> = <<st[b], kind[b], ser[b], dur[b]>>
            /\ <<exch'[b], wire'[b], got'[b], outcome'[b]>> = <<exch[b], wire[b], got[b], outcome[b]>>
            /\ <<connCalls'[b], deserCalls'[b], serCalls'[b]>> = <<connCalls[b], deserCalls[b], serCalls[b]>>]_vars

C20_Witness ==
    \E a, b \in Calls :
        /\ a < b
        /\ st[a] = "Done" /\ connCalls[a] = 1 /\ deserCalls[a] = 1
        /\ st[b] \in {"Failed", "Expired", "Dropped"} /\ connCalls[b] = 1
====
